---- MODULE Spec2Model ----
(***************************************************************************)
(* Model of sqlalchemy_storages.s3.S3Storage: the storage-key computation  *)
(* (get_name), the four bucket operations (get_size, write, delete and the *)
(* existence check) and the collision resolver generate_new_filename,     *)
(* against one S3 bucket.  Spec: one client makes any calls in sequence.   *)
(* SpecRace: two callers each run generate_new_filename and then write,   *)
(* concurrently.                                                           *)
(*                                                                         *)
(* Strings are sequences of one-character strings, so that pathlib's       *)
(* splitting and the f-string that builds a candidate are computed.        *)
(***************************************************************************)
EXTENDS Integers, Sequences, FiniteSets, TLC

VARIABLES bucket, pc, arg, filename, key, stem, suffix, counter,
          checks, held, stored, calls, last

vars == <<bucket, pc, arg, filename, key, stem, suffix, counter,
          checks, held, stored, calls, last>>

(* ---------------------------- bounds ----------------------------------- *)

\* calls the single client makes
MaxCalls == 3
\* largest counter the loop of generate_new_filename is followed to
MaxCounter == 2
\* longest content a caller uploads
MaxLen == 1

\* the concurrent callers sharing the storage instance
Callers == {"c1", "c2"}
NoCaller == "none"

(* ---------------------------- strings ---------------------------------- *)

SEP == "/"

A_P == <<"a", ".", "p">>
A_1_P == <<"a", "_", "1", ".", "p">>
U_AB_P == <<"u", "/", "a", " ", "b", ".", "p">>

\* the logical names callers pass in
Names == {A_P, U_AB_P}

\* keys an object may be stored under before the callers start
InitKeys == {A_P, A_1_P}

NoName == <<>>

RECURSIVE SplitOnSep(_)
SplitOnSep(s) ==
    IF s = <<>> THEN << <<>> >>
    ELSE LET rest == SplitOnSep(Tail(s))
         IN  IF Head(s) = SEP
                THEN << <<>> >> \o rest
                ELSE << <<Head(s)>> \o Head(rest) >> \o Tail(rest)

\* PurePosixPath(name).parts without the root: empty and "." segments drop
PathParts(name) ==
    SelectSeq(SplitOnSep(name), LAMBDA seg : seg # <<>> /\ seg # <<".">>)

IsAbsolute(name) == name # <<>> /\ name[1] = SEP

RECURSIVE JoinParts(_)
JoinParts(parts) ==
    IF parts = <<>> THEN <<>>
    ELSE IF Len(parts) = 1 THEN parts[1]
    ELSE parts[1] \o <<SEP>> \o JoinParts(Tail(parts))

\* str(PurePosixPath)
PathStr(abs, parts) ==
    IF abs THEN <<SEP>> \o JoinParts(parts)
    ELSE IF parts = <<>> THEN <<".">> ELSE JoinParts(parts)

\* Path(name).name
PathName(name) ==
    LET parts == PathParts(name)
    IN  IF parts = <<>> THEN <<>> ELSE parts[Len(parts)]

\* str.rfind("."), 1-based, 0 when absent
RECURSIVE RFindDot(_, _)
RFindDot(s, i) ==
    IF i = 0 THEN 0 ELSE IF s[i] = "." THEN i ELSE RFindDot(s, i - 1)

\* Path(name).suffix
PathSuffix(name) ==
    LET n == PathName(name)
        i == RFindDot(n, Len(n))
    IN  IF 1 < i /\ i < Len(n) THEN SubSeq(n, i, Len(n)) ELSE <<>>

\* Path(name).stem
PathStem(name) ==
    LET n == PathName(name)
        i == RFindDot(n, Len(n))
    IN  IF 1 < i /\ i < Len(n) THEN SubSeq(n, 1, i - 1) ELSE n

\* Path(name).with_name(leaf), as a string
WithName(name, leaf) ==
    LET parts == PathParts(name)
    IN  PathStr(IsAbsolute(name), SubSeq(parts, 1, Len(parts) - 1) \o <<leaf>>)

SafeChars == {"a", "b", "c", "p", "u", ".", "_", "-",
              "0", "1", "2", "3", "4", "5", "6", "7", "8", "9"}

RECURSIVE CollapseSeparators(_)
CollapseSeparators(s) ==
    IF Len(s) < 2 THEN s
    ELSE IF s[1] = "_" /\ s[2] = "_" THEN CollapseSeparators(Tail(s))
    ELSE <<s[1]>> \o CollapseSeparators(Tail(s))

RECURSIVE StripLeading(_)
StripLeading(s) ==
    IF s # <<>> /\ s[1] \in {".", "-"} THEN StripLeading(Tail(s)) ELSE s

\* utils.secure_filename: sanitize one leaf filename
secure_filename(leaf) ==
    LET translit == [i \in 1..Len(leaf) |-> IF leaf[i] = " " THEN "_" ELSE leaf[i]]
        kept == SelectSeq(translit, LAMBDA ch : ch \in SafeChars)
    IN  StripLeading(CollapseSeparators(kept))

\* S3Storage.get_name
get_name(name) == WithName(name, secure_filename(PathName(name)))

DigitChar(d) ==
    CASE d = 0 -> "0" [] d = 1 -> "1" [] d = 2 -> "2" [] d = 3 -> "3"
      [] d = 4 -> "4" [] d = 5 -> "5" [] d = 6 -> "6" [] d = 7 -> "7"
      [] d = 8 -> "8" [] d = 9 -> "9"

\* str(int) of the f-string
RECURSIVE Digits(_)
Digits(n) ==
    IF n < 10 THEN <<DigitChar(n)>>
    ELSE Digits(n \div 10) \o <<DigitChar(n % 10)>>

\* f"{stem}_{counter}{suffix}"
Candidate(st, c, su) == st \o <<"_">> \o Digits(c) \o su

(* ---------------------------- contents --------------------------------- *)

BYTE == 0

\* the byte strings a caller uploads
Contents == UNION {[1..n -> {BYTE}] : n \in 0..MaxLen}

\* a BinaryIO: its bytes and the position the caller left it at
Files == {[data |-> d, pos |-> q] : d \in Contents, q \in 0..MaxLen} \cap
         {f \in [data : Contents, pos : 0..MaxLen] : f.pos <= Len(f.data)}

\* the object every key of InitKeys may hold before the callers start
InitContent == <<BYTE>>

\* write() without the seek: the file stays where the caller left it
Seek0_skip(f) == f

\* file.seek(0, 0)
Seek0(f) == [f EXCEPT !.pos = 0]

\* what upload_fileobj reads: from the current position to the end
ReadToEnd(f) == SubSeq(f.data, f.pos + 1, Len(f.data))

(* ---------------------------- provider --------------------------------- *)

\* answers of the S3 endpoint: "200" success, "404" ClientError not found,
\* "403" a ClientError with another code, "conn" an exception that is not
\* a ClientError (connection failure)
TransportErrors == {"403", "conn"}

\* head_object
HeadOutcomes(b, k) ==
    (IF k \in DOMAIN b THEN {"200"} ELSE {"404"}) \cup TransportErrors

\* upload_fileobj / delete_object
MutateOutcomes == {"200", "conn"}

\* an upload that keeps the object already stored under k
UploadFileobj_keep(b, k, data) ==
    [x \in DOMAIN b \cup {k} |-> IF x \in DOMAIN b THEN b[x] ELSE data]

\* the bucket after upload_fileobj stored data under k
UploadFileobj(b, k, data) ==
    [x \in DOMAIN b \cup {k} |-> IF x = k THEN data ELSE b[x]]

\* a delete_object that removes nothing
DeleteObject_none(b, k) == b

\* the bucket after delete_object on k
DeleteObject(b, k) == [x \in DOMAIN b \ {k} |-> b[x]]

(* ---------------------------- configuration --------------------------- *)

\* class attributes of S3Storage, at their defaults
AWS_S3_USE_SSL == TRUE
AWS_S3_CUSTOM_DOMAIN == <<>>
AWS_QUERYSTRING_AUTH == FALSE

\* self._http_scheme
HttpScheme == IF AWS_S3_USE_SSL THEN "https" ELSE "http"

(* ---------------------------- helpers of the methods ------------------- *)

\* write() uploading to the name as given
WriteKey_raw(name) == name

\* the key write() uploads to and returns
WriteKey(name) == get_name(name)

\* the key delete() removes
DeleteKey(name) == get_name(name)

\* the bytes write() uploads
WriteData(f) == ReadToEnd(Seek0(f))

\* _check_object_exists returning False on every ClientError
CheckObjectExists_any(st) ==
    IF st \in {"404", "403"} THEN "false"
    ELSE IF st = "conn" THEN "raise"
    ELSE "true"

\* _check_object_exists on the answer of head_object:
\* "true" / "false" returned, "raise" the exception leaves the method
CheckObjectExists(st) ==
    IF st = "404" THEN "false"
    ELSE IF st = "conn" THEN "raise"
    ELSE "true"

\* the loop computing the next key without the suffix
NextKey_nosuffix(st, c, su) == get_name(st \o <<"_">> \o Digits(c))

\* the key the loop of generate_new_filename checks next
NextKey(st, c, su) == get_name(Candidate(st, c, su))

\* get_path, as the sequence of the pieces the format string joins
get_path(name) ==
    LET k == get_name(name)
    IN  IF AWS_S3_CUSTOM_DOMAIN # <<>>
           THEN <<HttpScheme, "://">> \o AWS_S3_CUSTOM_DOMAIN \o <<"/">> \o k
        ELSE IF AWS_QUERYSTRING_AUTH
           THEN <<"presigned", "get_object", "bucket", "/">> \o k
        ELSE <<HttpScheme, "://", "endpoint", "/", "bucket", "/">> \o k

(* ---------------------------- state ------------------------------------ *)

NoContent == <<-1>>

\* the latest completed call: operation, caller, its number among the
\* caller's calls, argument, key, provider answer, whether it returned or
\* raised, returned value (val: a name, key or URL; n: a size), the content
\* written, the size stored at the key before the call (-1: none), the
\* existence checks of generate_new_filename, and the run of calls it
\* ends: "w" a successful write, "wd" that write then a successful delete
\* of its key, "wg"/"wdg" then get_size of that key, with wlen and wold the
\* length written and the size the write replaced
NoCall == [op |-> "none", p |-> NoCaller, seq |-> 0, name |-> NoName,
           key |-> NoName, st |-> "none", kind |-> "none", val |-> NoName, n |-> -1, data |-> NoContent,
           old |-> -1, log |-> <<>>, run |-> "", wlen |-> -1, wold |-> -1]

SizeOf(b, k) == IF k \in DOMAIN b THEN Len(b[k]) ELSE -1

\* the call e, marked with the run of calls it ends
Chained(e) ==
    IF e.op = "write" /\ e.st = "200"
       THEN [e EXCEPT !.run = "w", !.wlen = Len(e.data), !.wold = e.old]
    ELSE IF /\ e.op = "delete" /\ e.st = "200"
            /\ last.run = "w" /\ last.key = e.key
       THEN [e EXCEPT !.run = "wd", !.wlen = last.wlen, !.wold = last.wold]
    ELSE IF /\ e.op = "get_size"
            /\ last.run \in {"w", "wd"} /\ last.key = e.key
       THEN [e EXCEPT !.run = IF last.run = "w" THEN "wg" ELSE "wdg",
                      !.wlen = last.wlen, !.wold = last.wold]
    ELSE e

Init ==
    /\ \E S \in SUBSET InitKeys : bucket = [k \in S |-> InitContent]
    /\ pc = [p \in Callers |-> "idle"]
    /\ arg = [p \in Callers |-> NoName]
    /\ filename = [p \in Callers |-> NoName]
    /\ key = [p \in Callers |-> NoName]
    /\ stem = [p \in Callers |-> NoName]
    /\ suffix = [p \in Callers |-> NoName]
    /\ counter = [p \in Callers |-> 0]
    /\ checks = [p \in Callers |-> <<>>]
    /\ held = [p \in Callers |-> NoName]
    /\ stored = [p \in Callers |-> NoContent]
    /\ calls = [p \in Callers |-> 0]
    /\ last = NoCall

\* the names caller p can pass: the given ones and the one it was handed
Known(p) == Names \cup (IF held[p] = NoName THEN {} ELSE {held[p]})

CanCall(p) == pc[p] = "idle"

locals == <<arg, filename, key, stem, suffix, counter, checks>>

\* the call e of caller p completes
Completes(p, e) ==
    last' = Chained([e EXCEPT !.p = p, !.seq = calls'[p]])

Starts(p) == calls' = [calls EXCEPT ![p] = @ + 1]

(* ---------------------------- operations ------------------------------- *)

GetName(p) ==
    /\ CanCall(p)
    /\ Starts(p)
    /\ \E name \in Known(p) :
          Completes(p, [NoCall EXCEPT !.op = "get_name", !.name = name,
                                      !.kind = "return",
                                      !.val = get_name(name)])
    /\ UNCHANGED <<bucket, pc, locals, held, stored>>

GetPath(p) ==
    /\ CanCall(p)
    /\ Starts(p)
    /\ \E name \in Known(p) :
          Completes(p, [NoCall EXCEPT !.op = "get_path", !.name = name,
                                      !.kind = "return",
                                      !.key = get_name(name),
                                      !.val = get_path(name)])
    /\ UNCHANGED <<bucket, pc, locals, held, stored>>

GetSize(p) ==
    /\ CanCall(p)
    /\ Starts(p)
    /\ \E name \in Known(p) :
          LET k == get_name(name)
          IN  \E st \in HeadOutcomes(bucket, k) :
                 Completes(p, [NoCall EXCEPT
                     !.op = "get_size", !.name = name, !.key = k, !.st = st,
                     !.old = SizeOf(bucket, k),
                     !.kind = IF st = "200" THEN "return" ELSE "raise",
                     !.n = IF st = "200" THEN Len(bucket[k]) ELSE -1])
    /\ UNCHANGED <<bucket, pc, locals, held, stored>>

Write(p) ==
    /\ CanCall(p)
    /\ Starts(p)
    /\ \E name \in Known(p), f \in Files, st \in MutateOutcomes :
          LET k == WriteKey(name)
          IN  /\ bucket' = IF st = "200"
                              THEN UploadFileobj(bucket, k, WriteData(f))
                              ELSE bucket
              /\ stored' = [stored EXCEPT ![p] =
                     IF st = "200" /\ name = held[p] THEN f.data ELSE @]
              /\ Completes(p, [NoCall EXCEPT
                     !.op = "write", !.name = name, !.key = k, !.st = st,
                     !.kind = IF st = "200" THEN "return" ELSE "raise",
                     !.val = IF st = "200" THEN k ELSE NoName,
                     !.data = f.data, !.old = SizeOf(bucket, k)])
    /\ UNCHANGED <<pc, locals, held>>

Delete(p) ==
    /\ CanCall(p)
    /\ Starts(p)
    /\ \E name \in Known(p), st \in MutateOutcomes :
          LET k == DeleteKey(name)
          IN  /\ bucket' = IF st = "200" THEN DeleteObject(bucket, k) ELSE bucket
              /\ Completes(p, [NoCall EXCEPT
                     !.op = "delete", !.name = name, !.key = k, !.st = st,
                     !.kind = IF st = "200" THEN "return" ELSE "raise",
                     !.old = SizeOf(bucket, k)])
    /\ UNCHANGED <<pc, locals, held, stored>>

\* generate_new_filename up to the first test of the while loop
GenStart(p) ==
    /\ CanCall(p)
    /\ \E name \in Known(p) :
          /\ arg' = [arg EXCEPT ![p] = name]
          /\ filename' = [filename EXCEPT ![p] = name]
          /\ key' = [key EXCEPT ![p] = get_name(name)]
          /\ stem' = [stem EXCEPT ![p] = PathStem(name)]
          /\ suffix' = [suffix EXCEPT ![p] = PathSuffix(name)]
    /\ counter' = [counter EXCEPT ![p] = 0]
    /\ checks' = [checks EXCEPT ![p] = <<>>]
    /\ pc' = [pc EXCEPT ![p] = "loop"]
    /\ Starts(p)
    /\ UNCHANGED <<bucket, held, stored, last>>

\* one test of the while loop: _check_object_exists(key), then the loop
\* body, the return, or the exception leaving generate_new_filename
GenCheck(p) ==
    /\ pc[p] = "loop"
    /\ \E st \in HeadOutcomes(bucket, key[p]) :
          LET verdict == CheckObjectExists(st)
              log == Append(checks[p],
                            [name |-> filename[p], key |-> key[p], st |-> st,
                             present |-> key[p] \in DOMAIN bucket])
          IN  IF verdict = "true"
                 THEN /\ counter[p] < MaxCounter
                      /\ checks' = [checks EXCEPT ![p] = log]
                      /\ counter' = [counter EXCEPT ![p] = @ + 1]
                      /\ filename' = [filename EXCEPT ![p] =
                             Candidate(stem[p], counter[p] + 1, suffix[p])]
                      /\ key' = [key EXCEPT ![p] =
                             NextKey(stem[p], counter[p] + 1, suffix[p])]
                      /\ UNCHANGED <<pc, arg, stem, suffix, held, stored,
                                     calls, last>>
                 ELSE /\ pc' = [pc EXCEPT ![p] = "idle"]
                      /\ UNCHANGED calls
                      /\ Completes(p, [NoCall EXCEPT
                             !.op = "generate_new_filename", !.name = arg[p],
                             !.key = key[p], !.st = st, !.log = log,
                             !.n = counter[p],
                             !.kind = IF verdict = "false" THEN "return"
                                      ELSE "raise",
                             !.val = IF verdict = "false" THEN filename[p]
                                     ELSE NoName])
                      /\ held' = [held EXCEPT ![p] =
                             IF verdict = "false" THEN filename[p] ELSE NoName]
                      /\ stored' = [stored EXCEPT ![p] = NoContent]
                      /\ arg' = [arg EXCEPT ![p] = NoName]
                      /\ filename' = [filename EXCEPT ![p] = NoName]
                      /\ key' = [key EXCEPT ![p] = NoName]
                      /\ stem' = [stem EXCEPT ![p] = NoName]
                      /\ suffix' = [suffix EXCEPT ![p] = NoName]
                      /\ counter' = [counter EXCEPT ![p] = 0]
                      /\ checks' = [checks EXCEPT ![p] = <<>>]
    /\ UNCHANGED bucket

\* one client makes any calls, one after the other, MaxCalls in all
Client == "c1"

Next ==
    \/ calls[Client] < MaxCalls /\ GetName(Client)
    \/ calls[Client] < MaxCalls /\ GetPath(Client)
    \/ calls[Client] < MaxCalls /\ GetSize(Client)
    \/ calls[Client] < MaxCalls /\ Write(Client)
    \/ calls[Client] < MaxCalls /\ Delete(Client)
    \/ calls[Client] < MaxCalls /\ GenStart(Client)
    \/ GenCheck(Client)

Spec == Init /\ [][Next]_vars

\* every caller runs generate_new_filename(n) and then write(content, r) on
\* the name r it returned, concurrently with the other callers; a caller
\* whose generate_new_filename raised has no name to write
NextRace ==
    \E p \in Callers :
        \/ /\ calls[p] = 0
           /\ GenStart(p)
        \/ GenCheck(p)
        \/ /\ calls[p] = 1
           /\ held[p] # NoName
           /\ Write(p)
           /\ last'.name = held[p]

SpecRace == Init /\ [][NextRace]_vars

(* ---------------------------- properties ------------------------------- *)

Generated == last.op = "generate_new_filename"

Returned == last.kind = "return"

LastCheck == last.log[Len(last.log)]

\* C1: when generate_new_filename returns a name r, its last existence
\* check was made on the key get_name(r), was answered not-found, and no
\* object was stored at that key at the moment of the check.
C1_ReturnedNameWasAbsent ==
    (Generated /\ Returned) =>
        /\ LastCheck.key = get_name(last.val)
        /\ LastCheck.st = "404"
        /\ ~LastCheck.present

\* a candidate with a counter was returned after the given name was taken
C1_Witness ==
    /\ Generated /\ Returned
    /\ Len(last.log) >= 2
    /\ last.log[1].present
    /\ last.val # last.name

\* C2: of two callers that were both handed the same name by
\* generate_new_filename and both wrote it, the bucket holds the content of
\* the one that wrote last and nothing of the other's.
C2_LastWriterWins ==
    \A p \in Callers, q \in Callers :
        ( /\ p # q
          /\ stored[p] # NoContent /\ stored[q] # NoContent
          /\ get_name(held[p]) = get_name(held[q])
          /\ last.op = "write" /\ last.st = "200" /\ last.p = q )
        => /\ get_name(held[q]) \in DOMAIN bucket
           /\ bucket[get_name(held[q])] = stored[q]
           /\ stored[p] # stored[q] => bucket[get_name(held[q])] # stored[p]

\* both callers were told the same name is free, both writes returned the
\* key, and the object holds only the second writer's content
C2_Witness ==
    /\ held["c1"] # NoName
    /\ held["c1"] = held["c2"]
    /\ stored["c1"] # NoContent /\ stored["c2"] # NoContent
    /\ stored["c1"] # stored["c2"]
    /\ last.op = "write" /\ last.kind = "return" /\ last.p = "c2"
    /\ last.old = Len(stored["c1"])
    /\ bucket[get_name(held["c1"])] = stored["c2"]

\* C3: an existence check answered with a transport error (a provider
\* error other than not-found) is the last check of its call, and the call
\* ends by raising.
C3_TransportErrorPropagates ==
    /\ \A p \in Callers : \A i \in 1..Len(checks[p]) :
           checks[p][i].st \notin TransportErrors
    /\ Generated =>
           \A i \in 1..Len(last.log) :
               last.log[i].st \in TransportErrors =>
                   i = Len(last.log) /\ last.kind = "raise"

\* C4: generate_new_filename returns the first entry of name, stem_1suffix,
\* stem_2suffix, ... whose key is not in the bucket: every candidate before
\* the returned one was in the bucket when it was checked.
C4_FirstFreeCandidate ==
    (Generated /\ Returned) =>
        /\ \A i \in 1..(Len(last.log) - 1) : last.log[i].present
        /\ ~LastCheck.present
        /\ last.val = IF Len(last.log) = 1 THEN last.name
                      ELSE Candidate(PathStem(last.name), Len(last.log) - 1,
                                     PathSuffix(last.name))

\* C5: get_size of a key right after a successful write to it returns the
\* number of bytes written, whatever was stored there before; it does not
\* report not-found or another size.
C5_SizeAfterWrite ==
    last.run = "wg" =>
        /\ last.st # "404"
        /\ last.kind = "return" => last.n = last.wlen

\* get_size returned the length written over an object of another size
C5_Witness ==
    /\ last.run = "wg"
    /\ last.kind = "return"
    /\ last.n = last.wlen
    /\ last.wold >= 0
    /\ last.wold # last.wlen

\* C6: get_size returns no size when no object is stored at the key: it
\* fails, with not-found unless the transport failed; so it does after a
\* write and a delete of the key.
C6_NotFoundAfterDelete ==
    /\ (last.op = "get_size" /\ last.old = -1) =>
           /\ last.kind = "raise"
           /\ last.n = -1
           /\ last.st \in {"404"} \cup TransportErrors
    /\ last.run = "wdg" => last.old = -1

\* write, delete, get_size of one key, and get_size answered not-found
C6_Witness ==
    /\ last.run = "wdg"
    /\ last.op = "get_size"
    /\ last.st = "404"
    /\ last.kind = "raise"

\* the step completes a call
CallCompletes == last' # last

\* C7: a successful write stores the content at the key get_name(name),
\* replacing what was there, returns that key and changes no other key; a
\* successful delete removes only the object at get_name(name); every other
\* step leaves the bucket unchanged.
C7_Frame ==
    [][ /\ ~CallCompletes => bucket' = bucket
        /\ CallCompletes =>
             LET e == last'
                 k == get_name(e.name)
             IN  IF e.op = "write" /\ e.kind = "return"
                    THEN /\ e.val = k
                         /\ bucket' = [x \in DOMAIN bucket \cup {k} |->
                                          IF x = k THEN e.data ELSE bucket[x]]
                 ELSE IF e.op = "delete" /\ e.kind = "return"
                    THEN bucket' = [x \in DOMAIN bucket \ {k} |-> bucket[x]]
                 ELSE bucket' = bucket ]_vars

\* a write replaced the object at a key that differs from the name given,
\* next to an object at another key
C7_Witness ==
    /\ last.op = "write" /\ last.kind = "return"
    /\ last.old >= 0
    /\ last.val # last.name
    /\ last.val = get_name(last.name)
    /\ bucket[last.val] = last.data
    /\ \E x \in DOMAIN bucket : x # last.val

\* C8: a key counts as free only on a not-found answer: no call returns a
\* name whose last existence check ended in another provider error.
C8_OnlyNotFoundIsAvailable ==
    (Generated /\ Returned) => LastCheck.st \notin TransportErrors

\* a check answered 403 on a free key, and the call went on to a later name
C8_Witness ==
    /\ Generated /\ Returned
    /\ \E i \in 1..(Len(last.log) - 1) :
           last.log[i].st = "403" /\ ~last.log[i].present

\* the desired name with "_<counter>" put right before its extension
WithCounter(name, c) ==
    LET su == PathSuffix(name)
    IN  SubSeq(name, 1, Len(name) - Len(su)) \o <<"_">> \o Digits(c) \o su

\* C9: when the key of the desired name exists, every candidate formed and
\* checked is the desired name with "_<counter>" before the extension, so
\* it keeps the directory prefix, and its key is the key checked.
C9_KeepsDirectoryPrefix ==
    \A p \in Callers :
        ( /\ pc[p] = "loop"
          /\ counter[p] >= 1
          /\ checks[p][1].st = "200" )
        => /\ filename[p] = WithCounter(arg[p], counter[p])
           /\ key[p] = get_name(WithCounter(arg[p], counter[p]))

\* C10: the loop runs at most once for every candidate key that exists, so
\* a call ends when finitely many of them exist, whatever the checks answer.
C10_IterationsBoundedByExisting ==
    \A p \in Callers :
        pc[p] = "loop" =>
            counter[p] <= Cardinality({i \in 1..Len(checks[p]) :
                                          checks[p][i].present})

====
